---- MODULE Spec2Model ----
(***************************************************************************)
(* jstream: the path-tracking traversal `stream` (src/src/lib.rs) and the  *)
(* JSON-pointer writer (src/src/path_value_writer/json_pointer.rs).        *)
(*                                                                         *)
(* The token source (aws_smithy_json's json_token_iter) is modelled as a   *)
(* generator of well-formed token streams: it keeps the stack of open      *)
(* containers (`stack`) and offers exactly the tokens JSON allows next.    *)
(* Every reachable state is the state of `stream` after some prefix of a   *)
(* well-formed token stream.                                               *)
(***************************************************************************)
EXTENDS Integers, Sequences, FiniteSets, TLC

\* ---------------------------------------------------------------- bounds
\* longest token stream generated
MaxTokens == 7
\* deepest nesting generated
MaxDepth == 3

\* latest token position at which a collaborator's failure is injected
MaxFailAt == 4
\* usize::MAX of the narrow-counter specification
SmallUsizeMax == 2

\* longest sequence of pairs given to the writer directly
MaxWrites == 2

\* usize::MAX, the limit of checked_add (capped at TLC's integer range)
UsizeMax == 2147483647

\* object keys and scalar payloads the token source draws from
Keys == {"a", "b"}
Strings == {"g"}
Numbers == {9}
Bools == {TRUE}

VARIABLES
    path,       \* State.path: Vec<PathComponent>
    depth,      \* State.depth: usize
    pc,         \* "running" inside the for loop, "done" after Ok(()),
                \* "err_decode" / "err_sink" after Err(..) was returned,
                \* "panic" after an expect()/unreachable!() fired
    toks,       \* tokens consumed so far, in order
    stack,      \* token source: the open containers, outermost first
    out,        \* calls made to writer.write_path_and_value, in order
    buf,        \* Writer.writer: the chunks given to write_all, in order
    write_empty_collections,  \* Options.write_empty_collections
    ref,        \* reference flattening: the true (path, value) of every scalar
                \* token consumed so far, in order
    usize_max   \* the largest value a usize counter holds (checked_add)

vars == <<path, depth, pc, toks, stack, out, buf, write_empty_collections, ref,
          usize_max>>

\* ------------------------------------------------------- data (lib.rs)
Key(k) == [c |-> "Key", key |-> k]
Index(i) == [c |-> "Index", index |-> i]

AtomString(s) == [atom |-> "String", s |-> s]
AtomNull == [atom |-> "Null"]
AtomBool(b) == [atom |-> "Bool", b |-> b]
AtomNumber(n) == [atom |-> "Number", n |-> n]
\* the variants json_pointer.rs matches on beyond those lib.rs declares
AtomEmptyObject == [atom |-> "EmptyObject"]
AtomEmptyArray == [atom |-> "EmptyArray"]

Last(s) == s[Len(s)]
Front(s) == SubSeq(s, 1, Len(s) - 1)

\* ------------------------------------------------ State methods (lib.rs)
\* a State value is [path, depth, panicked]

\* pop_path leaving the path as it is
pop_path_keep(s) == s

pop_path(s) ==
    IF Len(s.path) = 0 THEN s ELSE [s EXCEPT !.path = Front(s.path)]

\* add_new_array_index_to_path leaving the Index to the first element
add_new_array_index_to_path_lazy(s) == s

add_new_array_index_to_path(s) ==
    [s EXCEPT !.path = Append(s.path, Index(0))]

\* increment_depth giving up one step before the limit
increment_depth_early(s) ==
    IF s.depth + 1 >= usize_max
    THEN [s EXCEPT !.panicked = TRUE]
    ELSE [s EXCEPT !.depth = s.depth + 1]

increment_depth(s) ==
    IF s.depth >= usize_max
    THEN [s EXCEPT !.panicked = TRUE]
    ELSE [s EXCEPT !.depth = s.depth + 1]

decrement_depth(s) ==
    IF s.depth = 0
    THEN [s EXCEPT !.panicked = TRUE]
    ELSE [s EXCEPT !.depth = s.depth - 1]

\* maybe_increment_most_recent_array_index with wrapping_add in place of
\* checked_add
maybe_increment_most_recent_array_index_wrapping(s) ==
    IF Len(s.path) > 0 /\ Last(s.path).c = "Index"
    THEN [s EXCEPT !.path[Len(s.path)] =
             Index((Last(s.path).index + 1) % (usize_max + 1))]
    ELSE s

maybe_increment_most_recent_array_index(s) ==
    IF Len(s.path) > 0 /\ Last(s.path).c = "Index"
    THEN IF Last(s.path).index >= usize_max
         THEN [s EXCEPT !.panicked = TRUE]
         ELSE [s EXCEPT !.path[Len(s.path)] = Index(Last(s.path).index + 1)]
    ELSE s

add_new_object_key_to_path(s, key) ==
    IF s.depth <= Len(s.path)
    THEN IF Len(s.path) > 0
         THEN [s EXCEPT !.path[Len(s.path)] = Key(key)]
         ELSE [s EXCEPT !.panicked = TRUE]
    ELSE [s EXCEPT !.path = Append(s.path, Key(key))]

is_terminal(token) ==
    token.type \in {"ValueString", "ValueNumber", "ValueBool", "ValueNull",
                    "EndObject", "EndArray"}

\* --------------------------------------- Writer (json_pointer.rs)
separator == "\t"

DigitChar(d) ==
    CASE d = 0 -> "0" [] d = 1 -> "1" [] d = 2 -> "2" [] d = 3 -> "3"
      [] d = 4 -> "4" [] d = 5 -> "5" [] d = 6 -> "6" [] d = 7 -> "7"
      [] d = 8 -> "8" [] d = 9 -> "9"

RECURSIVE itoa_digits(_)
itoa_digits(n) ==
    IF n < 10 THEN DigitChar(n)
    ELSE itoa_digits(n \div 10) \o DigitChar(n % 10)

\* itoa::Buffer::format
itoa_format(i) == IF i < 0 THEN "-" \o itoa_digits(0 - i) ELSE itoa_digits(i)

\* write_component putting the "/" after the component
write_component_trailing(w, item) ==
    IF item.c = "Key"
    THEN (w \o item.key) \o "/"
    ELSE (w \o itoa_format(item.index)) \o "/"

write_component(w, item) ==
    IF item.c = "Key"
    THEN (w \o "/") \o item.key
    ELSE (w \o "/") \o itoa_format(item.index)

\* write_path writing a "/" for the root as well
RECURSIVE write_path_rooted(_, _)
write_path_rooted(w, path_components) ==
    IF path_components = <<>> THEN w \o "/"
    ELSE IF Len(path_components) = 1
         THEN write_component(w, Head(path_components))
         ELSE write_path_rooted(write_component(w, Head(path_components)),
                                Tail(path_components))

RECURSIVE write_path(_, _)
write_path(w, path_components) ==
    IF path_components = <<>> THEN w
    ELSE write_path(write_component(w, Head(path_components)),
                    Tail(path_components))

\* the arguments of the write_all calls write_path makes, in order
RECURSIVE write_path_calls(_)
write_path_calls(path_components) ==
    IF path_components = <<>> THEN <<>>
    ELSE LET item == Head(path_components)
         IN  <<"/", IF item.c = "Key" THEN item.key
                    ELSE itoa_format(item.index)>>
             \o write_path_calls(Tail(path_components))

\* the arguments of the write_all calls write_path_and_value makes, in order
write_all_calls(wec, p, value) ==
    CASE value.atom = "String" ->
           write_path_calls(p) \o <<separator, "\"", value.s, "\"", "\n">>
      [] value.atom = "Null" ->
           write_path_calls(p) \o <<separator, "null", "\n">>
      [] value.atom = "Bool" ->
           write_path_calls(p)
             \o <<separator, IF value.b THEN "true" ELSE "false", "\n">>
      [] value.atom = "Number" ->
           write_path_calls(p) \o <<separator, itoa_format(value.n), "\n">>
      [] value.atom = "EmptyObject" ->
           IF wec THEN write_path_calls(p) \o <<separator, "{}", "\n">>
           ELSE <<>>
      [] value.atom = "EmptyArray" ->
           IF wec THEN write_path_calls(p) \o <<separator, "[]", "\n">>
           ELSE <<>>

\* w after the write_all calls `calls` succeeded
RECURSIVE write_calls(_, _)
write_calls(w, calls) ==
    IF calls = <<>> THEN w ELSE write_calls(w \o Head(calls), Tail(calls))

\* a writer that puts the newline between records instead of after each
write_path_and_value_joined(w, wec, p, value) ==
    LET calls == write_all_calls(wec, p, value)
    IN  IF calls = <<>> THEN w
        ELSE IF w = "" THEN write_calls(w, Front(calls))
        ELSE write_calls(w \o "\n", Front(calls))

\* write_path_and_value with the EmptyArray arm not looking at the flag
write_path_and_value_unflagged(w, wec, p, value) ==
    CASE value.atom = "String" ->
           write_path(w, p) \o separator \o "\"" \o value.s \o "\"" \o "\n"
      [] value.atom = "Null" ->
           write_path(w, p) \o separator \o "null" \o "\n"
      [] value.atom = "Bool" ->
           write_path(w, p) \o separator
             \o (IF value.b THEN "true" ELSE "false") \o "\n"
      [] value.atom = "Number" ->
           write_path(w, p) \o separator \o itoa_format(value.n) \o "\n"
      [] value.atom = "EmptyObject" ->
           IF wec THEN write_path(w, p) \o separator \o "{}" \o "\n" ELSE w
      [] value.atom = "EmptyArray" ->
           write_path(w, p) \o separator \o "[]" \o "\n"

\* the bytes of w after Writer::write_path_and_value(path, value)
write_path_and_value(w, wec, p, value) ==
    CASE value.atom = "String" ->
           write_path(w, p) \o separator \o "\"" \o value.s \o "\"" \o "\n"
      [] value.atom = "Null" ->
           write_path(w, p) \o separator \o "null" \o "\n"
      [] value.atom = "Bool" ->
           write_path(w, p) \o separator
             \o (IF value.b THEN "true" ELSE "false") \o "\n"
      [] value.atom = "Number" ->
           write_path(w, p) \o separator \o itoa_format(value.n) \o "\n"
      [] value.atom = "EmptyObject" ->
           IF wec THEN write_path(w, p) \o separator \o "{}" \o "\n" ELSE w
      [] value.atom = "EmptyArray" ->
           IF wec THEN write_path(w, p) \o separator \o "[]" \o "\n" ELSE w

\* ------------------------------------------------- stream (lib.rs)
Tok(t) == [type |-> t]
TokString(v) == [type |-> "ValueString", value |-> v]
TokNumber(v) == [type |-> "ValueNumber", value |-> v]
TokBool(v) == [type |-> "ValueBool", value |-> v]
TokNull == [type |-> "ValueNull"]
TokKey(k) == [type |-> "ObjectKey", key |-> k]

IsScalar(token) ==
    token.type \in {"ValueString", "ValueNumber", "ValueBool", "ValueNull"}

\* the JsonAtom built from a scalar token
atom_of(token) ==
    CASE token.type = "ValueString" -> AtomString(token.value)
      [] token.type = "ValueNumber" -> AtomNumber(token.value)
      [] token.type = "ValueBool" -> AtomBool(token.value)
      [] token.type = "ValueNull" -> AtomNull

\* stream with the ValueNull arm making no call to the writer
stream_emit_no_null(s, token) ==
    IF IsScalar(token) /\ token.type # "ValueNull"
    THEN <<[path |-> s.path, value |-> atom_of(token)]>>
    ELSE <<>>

\* the calls `match token` makes to writer.write_path_and_value
\* (the four scalar arms; no other arm calls the writer)
stream_emit(s, token) ==
    IF IsScalar(token)
    THEN <<[path |-> s.path, value |-> atom_of(token)]>>
    ELSE <<>>

end_container(s) ==
    LET d == decrement_depth(s)
    IN  IF d.panicked THEN d ELSE pop_path(d)

\* the State after `match token`
stream_match(s, token) ==
    CASE IsScalar(token) -> s
      [] token.type = "ObjectKey" -> add_new_object_key_to_path(s, token.key)
      [] token.type = "StartObject" -> increment_depth(s)
      [] token.type = "StartArray" ->
           LET d == increment_depth(s)
           IN  IF d.panicked THEN d ELSE add_new_array_index_to_path(d)
      [] token.type \in {"EndObject", "EndArray"} -> end_container(s)

\* one iteration of `for token in tokens`
stream_body(s, token) ==
    LET m == stream_match(s, token)
    IN  IF m.panicked THEN m
        ELSE IF is_terminal(token)
             THEN maybe_increment_most_recent_array_index(m)
             ELSE m

RECURSIVE write_all_emissions(_, _, _)
write_all_emissions(w, wec, es) ==
    IF es = <<>> THEN w
    ELSE write_all_emissions(
             write_path_and_value(w, wec, Head(es).path, Head(es).value),
             wec, Tail(es))

\* ------------------------------------- token source (JsonTokenIterator)
\* An open container: its kind, the number of children it has completed (n),
\* the key of the member in progress, whether an object waits for a key or
\* for a member's value, and whether an empty container has closed as an
\* object member's value somewhere inside it (e).
Open(kind) ==
    [kind |-> kind, n |-> 0, key |-> "",
     await |-> IF kind = "obj" THEN "key" ELSE "value", e |-> FALSE]

Top(stk) == stk[Len(stk)]

\* a value (scalar or container start) may come next
CanValue ==
    \/ stack = <<>> /\ toks = <<>>
    \/ stack # <<>> /\ Top(stack).await = "value"

CanKey == stack # <<>> /\ Top(stack).kind = "obj" /\ Top(stack).await = "key"

CanEndObject == CanKey

CanEndArray == stack # <<>> /\ Top(stack).kind = "arr"

\* the open containers after the innermost one has completed a child;
\* em: an empty container closed as an object member's value in that child
ChildDone(stk, em) ==
    IF stk = <<>> THEN stk
    ELSE LET t == Top(stk)
         IN  [stk EXCEPT ![Len(stk)] =
                 [t EXCEPT !.n = t.n + 1,
                           !.await = IF t.kind = "obj" THEN "key" ELSE "value",
                           !.e = t.e \/ em]]

\* the open containers after `token`
stack_after(stk, token) ==
    CASE IsScalar(token) -> ChildDone(stk, FALSE)
      [] token.type = "ObjectKey" ->
           [stk EXCEPT ![Len(stk)] =
               [@ EXCEPT !.key = token.key, !.await = "value"]]
      [] token.type = "StartObject" -> Append(stk, Open("obj"))
      [] token.type = "StartArray" -> Append(stk, Open("arr"))
      [] token.type \in {"EndObject", "EndArray"} ->
           ChildDone(Front(stk),
                     \/ Top(stk).e
                     \/ /\ Top(stk).n = 0
                        /\ Len(stk) > 1
                        /\ stk[Len(stk) - 1].kind = "obj")

\* the true root-to-leaf chain of the child in progress
TruePath(stk) ==
    [i \in 1..Len(stk) |->
        IF stk[i].kind = "arr" THEN Index(stk[i].n) ELSE Key(stk[i].key)]

ref_emit(stk, token) ==
    IF IsScalar(token)
    THEN <<[path |-> TruePath(stk), value |-> atom_of(token)]>>
    ELSE <<>>

\* ------------------------------------------------------------ actions
Init ==
    /\ path = <<>>
    /\ depth = 0
    /\ pc = "running"
    /\ toks = <<>>
    /\ stack = <<>>
    /\ out = <<>>
    /\ buf = ""
    /\ write_empty_collections \in BOOLEAN
    /\ ref = <<>>
    /\ usize_max = UsizeMax

\* the loop going on to the next token after the iterator yielded Err
Consume_after_error(token) ==
    /\ pc \in {"running", "err_decode"}
    /\ Len(toks) < MaxTokens
    /\ LET s == [path |-> path, depth |-> depth, panicked |-> FALSE]
           es == stream_emit(s, token)
           t == stream_body(s, token)
       IN  /\ path' = t.path
           /\ depth' = t.depth
           /\ pc' = IF t.panicked THEN "panic" ELSE "running"
           /\ out' = out \o es
           /\ buf' = write_all_emissions(buf, write_empty_collections, es)
    /\ toks' = Append(toks, token)
    /\ ref' = ref \o ref_emit(stack, token)
    /\ stack' = stack_after(stack, token)
    /\ UNCHANGED <<write_empty_collections, usize_max>>

\* `for token in tokens` takes `token` and runs the loop body on it
Consume(token) ==
    /\ pc = "running"
    /\ Len(toks) < MaxTokens
    /\ LET s == [path |-> path, depth |-> depth, panicked |-> FALSE]
           es == stream_emit(s, token)
           t == stream_body(s, token)
       IN  /\ path' = t.path
           /\ depth' = t.depth
           /\ pc' = IF t.panicked THEN "panic" ELSE "running"
           /\ out' = out \o es
           /\ buf' = write_all_emissions(buf, write_empty_collections, es)
    /\ toks' = Append(toks, token)
    /\ ref' = ref \o ref_emit(stack, token)
    /\ stack' = stack_after(stack, token)
    /\ UNCHANGED <<write_empty_collections, usize_max>>

ValueString == CanValue /\ \E v \in Strings : Consume(TokString(v))

ValueNumber == CanValue /\ \E v \in Numbers : Consume(TokNumber(v))

ValueBool == CanValue /\ \E v \in Bools : Consume(TokBool(v))

ValueNull == CanValue /\ Consume(TokNull)

ObjectKey == CanKey /\ \E k \in Keys : Consume(TokKey(k))

StartObject == CanValue /\ Len(stack) < MaxDepth /\ Consume(Tok("StartObject"))

StartArray == CanValue /\ Len(stack) < MaxDepth /\ Consume(Tok("StartArray"))

EndObject == CanEndObject /\ Consume(Tok("EndObject"))

EndArray == CanEndArray /\ Consume(Tok("EndArray"))

\* a loop exit that succeeds only when every container has been closed
Finish_strict ==
    /\ pc = "running"
    /\ stack = <<>>
    /\ pc' = "done"
    /\ UNCHANGED <<path, depth, toks, stack, out, buf,
                   write_empty_collections, ref, usize_max>>

\* the iterator is exhausted: the loop ends and stream returns Ok(())
Finish ==
    /\ pc = "running"
    /\ pc' = "done"
    /\ UNCHANGED <<path, depth, toks, stack, out, buf,
                   write_empty_collections, ref, usize_max>>

Next ==
    \/ ValueString
    \/ ValueNumber
    \/ ValueBool
    \/ ValueNull
    \/ ObjectKey
    \/ StartObject
    \/ StartArray
    \/ EndObject
    \/ EndArray
    \/ Finish

Spec == Init /\ [][Next]_vars

\* ------------------------------------- failing collaborators, narrow counters
InitFail ==
    /\ path = <<>>
    /\ depth = 0
    /\ pc = "running"
    /\ toks = <<>>
    /\ stack = <<>>
    /\ out = <<>>
    /\ buf = ""
    /\ write_empty_collections \in BOOLEAN
    /\ ref = <<>>
    /\ usize_max = SmallUsizeMax

\* the iterator yields Err: `token.map_err(..)?` returns Err(InvalidData)
\* before the token is matched
TokenError ==
    /\ pc = "running"
    /\ Len(toks) < MaxFailAt
    /\ pc' = "err_decode"
    /\ UNCHANGED <<path, depth, toks, stack, out, buf,
                   write_empty_collections, ref, usize_max>>

\* a failed write that discards the output written so far
SinkFailOn_rollback(token) ==
    /\ pc = "running"
    /\ Len(toks) < MaxFailAt
    /\ CanValue
    /\ buf' = ""
    /\ out' = Append(out, [path |-> path, value |-> atom_of(token)])
    /\ toks' = Append(toks, token)
    /\ ref' = ref \o ref_emit(stack, token)
    /\ stack' = stack_after(stack, token)
    /\ pc' = "err_sink"
    /\ UNCHANGED <<path, depth, write_empty_collections, usize_max>>

\* a scalar token whose writer.write_path_and_value(..)? returns Err: the
\* k-th write_all of the record fails, the calls before it have written
SinkFailOn(token) ==
    /\ pc = "running"
    /\ Len(toks) < MaxFailAt
    /\ CanValue
    /\ LET calls == write_all_calls(write_empty_collections, path,
                                    atom_of(token))
       IN  \E k \in 1..Len(calls) :
               buf' = write_calls(buf, SubSeq(calls, 1, k - 1))
    /\ out' = Append(out, [path |-> path, value |-> atom_of(token)])
    /\ toks' = Append(toks, token)
    /\ ref' = ref \o ref_emit(stack, token)
    /\ stack' = stack_after(stack, token)
    /\ pc' = "err_sink"
    /\ UNCHANGED <<path, depth, write_empty_collections, usize_max>>

SinkFail ==
    /\ pc = "running"
    /\ \/ \E v \in Strings : SinkFailOn(TokString(v))
       \/ \E v \in Numbers : SinkFailOn(TokNumber(v))
       \/ \E v \in Bools : SinkFailOn(TokBool(v))
       \/ SinkFailOn(TokNull)

\* ------------------------------------------ the writer driven directly
\* paths and values a caller hands to Writer::write_path_and_value
SinkIndexes == {0, 12}

\* the shapes of path handed to the sink: root, a key, an index, a key then
\* an index
SinkPaths(shape, k, i) ==
    CASE shape = 1 -> <<>>
      [] shape = 2 -> <<Key(k)>>
      [] shape = 3 -> <<Index(i)>>
      [] shape = 4 -> <<Key(k), Index(i)>>

InitSink ==
    /\ path = <<>>
    /\ depth = 0
    /\ pc = "sink"
    /\ toks = <<>>
    /\ stack = <<>>
    /\ out = <<>>
    /\ buf = ""
    /\ write_empty_collections \in BOOLEAN
    /\ ref = <<>>
    /\ usize_max = UsizeMax

\* one call of Writer::write_path_and_value(p, value) that succeeds
SinkWriteOf(p, value) ==
    /\ pc = "sink"
    /\ Len(out) < MaxWrites
    /\ out' = Append(out, [path |-> p, value |-> value])
    /\ buf' = write_path_and_value(buf, write_empty_collections, p, value)
    /\ UNCHANGED <<path, depth, pc, toks, stack, write_empty_collections,
                   ref, usize_max>>

SinkWrite ==
    /\ pc = "sink"
    /\ \E shape \in 1..4, k \in Keys, i \in SinkIndexes :
          LET p == SinkPaths(shape, k, i) IN
          \/ \E s \in Strings : SinkWriteOf(p, AtomString(s))
          \/ SinkWriteOf(p, AtomNull)
          \/ \E b \in BOOLEAN : SinkWriteOf(p, AtomBool(b))
          \/ \E n \in {9, 0 - 3} : SinkWriteOf(p, AtomNumber(n))
          \/ SinkWriteOf(p, AtomEmptyObject)
          \/ SinkWriteOf(p, AtomEmptyArray)

SpecSink == InitSink /\ [][SinkWrite]_vars

NextFail ==
    \/ Next
    \/ TokenError
    \/ SinkFail

SpecFail == InitFail /\ [][NextFail]_vars

\* ------------------------------------------------ helpers of the claims
ScalarTokens == SelectSeq(toks, IsScalar)

\* the last two tokens consumed are of types t1, t2: a container that opened
\* and closed at once
LastTwo(t1, t2) ==
    /\ Len(toks) >= 2
    /\ toks[Len(toks) - 1].type = t1
    /\ toks[Len(toks)].type = t2

\* how many sink calls carried the value a
CountAtom(a) == Cardinality({i \in 1..Len(out) : out[i].value = a})

\* how many containers opened with t1 and closed with t2 at once
NumEmptyClosed(t1, t2) ==
    Cardinality({i \in 1..(Len(toks) - 1) :
                    toks[i].type = t1 /\ toks[i + 1].type = t2})

\* ---------------------------------------------------------------- claims

\* C1: every (path, value) pair handed to the sink for a scalar token has the
\* true root-to-leaf chain of keys and indices of that scalar as its path.
C1_PathIsTrueChain ==
    \A i \in 1..Len(out) : out[i].path = ref[i].path

\* C2: the direct children of any array occupy Index 0, 1, 2, ...: every
\* emission for or inside the k-th child of an array carries Index(k) at that
\* array's position of the path.
C2_ArrayIndexAtPosition ==
    \A i \in 1..Len(out) :
        \A j \in 1..Len(ref[i].path) :
            ref[i].path[j].c = "Index" =>
                /\ Len(out[i].path) >= j
                /\ out[i].path[j] = ref[i].path[j]

\* C3: after the End-object token of an empty object that is an element of an
\* array, the enclosing array's Index is still the last component of the path
\* and stands at (index of the empty object + 1), under the same prefix.
C3_EmptyObjectInArray ==
    (/\ LastTwo("StartObject", "EndObject")
     /\ stack # <<>>
     /\ Top(stack).kind = "arr")
    => /\ path # <<>>
       /\ Last(path) = Index(Top(stack).n)
       /\ Front(path) = Front(TruePath(stack))

\* C4: after the End-array token of an empty array that is an element of an
\* array, only the empty array's own Index(0) is gone and the enclosing
\* array's Index stands at (index of the empty array + 1), so the next element
\* is emitted there under the same prefix.
C4_EmptyArrayInArray ==
    (/\ LastTwo("StartArray", "EndArray")
     /\ stack # <<>>
     /\ Top(stack).kind = "arr")
    => path = TruePath(stack)

\* C5: with empty-collection reporting disabled, an empty object or array
\* that is the value of an object member emits nothing, and every key that
\* follows it, in the same object or in an enclosing one, is emitted with its
\* true path.
C5_EmptyMemberNeutral ==
    (/\ ~write_empty_collections
     /\ toks # <<>>
     /\ IsScalar(Last(toks))
     /\ stack # <<>>
     /\ Top(stack).kind = "obj"
     /\ Top(stack).e)
    => /\ Len(out) = Len(ScalarTokens)
       /\ Last(out).path = Last(ref).path

\* C6: at every scalar emission the length of the path equals the number of
\* containers open at that moment.
C6_PathLenIsNesting ==
    \A i \in 1..Len(out) : Len(out[i].path) = Len(ref[i].path)

\* C7: with empty-collection reporting disabled the sink is called once per
\* scalar token and for no other token, in the order of the scalar tokens,
\* each call made before the next token is consumed.
C7_OnePerScalarInOrder ==
    ~write_empty_collections =>
        /\ Len(out) = Len(ScalarTokens)
        /\ \A i \in 1..Len(out) : out[i].value = atom_of(ScalarTokens[i])

C7_Witness ==
    /\ ~write_empty_collections
    /\ Len(toks) = 7
    /\ Len(out) = 3
    /\ out[1].value = AtomNull
    /\ out[2].value = AtomNumber(9)
    /\ out[3].value = AtomString("g")

\* the text the reference sink writes for a scalar token's value
C8_Rendered(token) ==
    CASE token.type = "ValueString" /\ token.value = "g" -> "\"g\""
      [] token.type = "ValueNumber" /\ token.value = 9 -> "9"
      [] token.type = "ValueBool" /\ token.value -> "true"
      [] token.type = "ValueBool" /\ ~token.value -> "false"
      [] token.type = "ValueNull" -> "null"

\* C8: a document that is a single root scalar produces exactly one emission,
\* with the empty path (rendered as the separator followed at once by the
\* value), and leaves depth 0 and the path empty.
C8_RootScalar ==
    (Len(toks) = 1 /\ IsScalar(toks[1])) =>
        /\ Len(out) = 1
        /\ out[1].path = <<>>
        /\ out[1].value = atom_of(toks[1])
        /\ buf = "\t" \o C8_Rendered(toks[1]) \o "\n"
        /\ depth = 0
        /\ path = <<>>

C8_Witness ==
    /\ pc = "done"
    /\ toks = <<TokBool(TRUE)>>
    /\ buf = "\ttrue\n"

\* C9: at an End-object token an (path, EmptyObject) emission is made if and
\* only if empty-collection reporting is enabled and the object closed had no
\* member.
C9_EmptyObjectEmission ==
    CountAtom(AtomEmptyObject) =
        IF write_empty_collections
        THEN NumEmptyClosed("StartObject", "EndObject")
        ELSE 0

\* C10: at an End-array token an (path, EmptyArray) emission is made if and
\* only if empty-collection reporting is enabled and the array closed had no
\* element.
C10_EmptyArrayEmission ==
    CountAtom(AtomEmptyArray) =
        IF write_empty_collections
        THEN NumEmptyClosed("StartArray", "EndArray")
        ELSE 0

\* C11: with the default options (empty-collection reporting off) an empty
\* object or array never causes bytes to be written: a document with no scalar
\* leaves output empty, and the reference sink given an EmptyObject or
\* EmptyArray value writes nothing, whatever the path and the bytes already
\* written.
C11_DefaultSuppressesEmpty ==
    ~write_empty_collections =>
        /\ ScalarTokens = <<>> => buf = ""
        /\ write_path_and_value(buf, write_empty_collections, path,
                                AtomEmptyObject) = buf
        /\ write_path_and_value(buf, write_empty_collections, path,
                                AtomEmptyArray) = buf

C11_Witness ==
    /\ ~write_empty_collections
    /\ pc = "done"
    /\ toks = <<Tok("StartObject"), TokKey("a"), Tok("StartArray"),
                Tok("EndArray"), Tok("EndObject")>>
    /\ buf = ""

\* s is a prefix of t (sequences or strings)
IsPrefix(s, t) == Len(s) <= Len(t) /\ SubSeq(t, 1, Len(s)) = s

\* C12: when the token source yields a failure, stream returns at once: the
\* failing step consumes no token and makes no sink call, the emissions are
\* those of the tokens consumed before it, and nothing happens afterwards.
C12_DecodeErrorStops ==
    [][/\ pc = "err_decode" => UNCHANGED vars
       /\ (pc # "err_decode" /\ pc' = "err_decode") =>
             /\ pc = "running"
             /\ toks' = toks
             /\ out' = out
             /\ buf' = buf
             /\ Len(out') = Len(ScalarTokens')
             /\ \A i \in 1..Len(out') :
                    out'[i].value = atom_of(ScalarTokens'[i])]_vars

C12_Witness ==
    /\ pc = "err_decode"
    /\ Len(toks) = 3
    /\ Len(out) = 2

\* C13: when a sink write fails the traversal ends at once with that failure:
\* nothing happens afterwards (no token consumed, no further sink call), and
\* the bytes written before the failure stay in the output.
C13_SinkErrorStops ==
    [][/\ pc = "err_sink" => UNCHANGED vars
       /\ (pc # "err_sink" /\ pc' = "err_sink") =>
             /\ pc = "running"
             /\ Len(out') = Len(out) + 1
             /\ IsPrefix(out, out')
             /\ IsPrefix(buf, buf')
             /\ path' = path
             /\ depth' = depth]_vars

C13_Witness ==
    /\ pc = "err_sink"
    /\ Len(out) = 2
    /\ buf = "/0\t9\n/1\t"

\* C14 as stated: every failure kind, counter overflow included, ends the
\* traversal by the result stream() returns, never by another path.
C14_AllFailuresReturned ==
    pc \in {"running", "done", "err_decode", "err_sink"}

\* the step overflows the depth counter or a trailing array index
C14_Overflows ==
    \/ /\ depth = usize_max
       /\ Last(toks').type \in {"StartObject", "StartArray"}
    \/ /\ is_terminal(Last(toks'))
       /\ path' # <<>>
       /\ Last(path').c = "Index"
       /\ Last(path').index = usize_max

\* C14 amended: a decode failure and a sink-write failure end the traversal by
\* the returned Err; a counter overflow ends it by a panic (the expect() of
\* checked_add), not by a returned result; a Start token at the depth limit
\* always panics; after any of them nothing more happens.
C14_FailureOutcomes ==
    [][/\ pc # "running" => UNCHANGED vars
       /\ (pc = "running" /\ toks' # toks /\ depth = usize_max
             /\ Last(toks').type \in {"StartObject", "StartArray"})
          => pc' = "panic"
       /\ (pc = "running" /\ pc' # "running") =>
             \/ pc' = "done" /\ UNCHANGED <<toks, out, buf>>
             \/ pc' = "err_decode" /\ UNCHANGED <<toks, out, buf>>
             \/ /\ pc' = "err_sink"
                /\ IsScalar(Last(toks'))
                /\ Len(out') = Len(out) + 1
             \/ pc' = "panic" /\ C14_Overflows]_vars

C14_Witness ==
    /\ pc = "panic"
    /\ depth = usize_max
    /\ Last(toks).type = "StartArray"

\* C15: the traversal is one forward pass without buffering: stream succeeds
\* on every prefix of a token stream (containers may still be open), the
\* emissions of a prefix are a prefix of the emissions of any longer stream,
\* and each token adds its own emission (one for a scalar, none otherwise) at
\* the moment it is consumed, leaving the earlier ones as they are.
C15_SingleForwardPass ==
    /\ [](pc \in {"running", "done"})
    /\ [](pc = "running" => ENABLED Finish)
    /\ [][/\ IsPrefix(out, out')
          /\ toks' # toks =>
                Len(out') = Len(out) + (IF IsScalar(Last(toks')) THEN 1 ELSE 0)
          /\ pc' = "done" => (out' = out /\ toks' = toks)]_vars

C15_Witness ==
    /\ pc = "done"
    /\ Len(stack) = 2
    /\ Len(out) = 3

\* C16: formatting is deterministic: a second run of the reference sink over
\* the same sequence of pairs with the same options gives the same bytes, and
\* the bytes written for one pair depend only on that pair and the options,
\* not on the pairs before it or on anything the sink keeps.
C16_FormattingDeterministic ==
    /\ [](buf = write_all_emissions("", write_empty_collections, out))
    /\ [][out' # out =>
             buf' = buf \o write_path_and_value("", write_empty_collections,
                                                Last(out').path,
                                                Last(out').value)]_vars

C16_Witness ==
    /\ Len(out) = 2
    /\ buf = "/a/12\t9\n/a/12\t9\n"
    /\ out[1].value.atom = "Number"
    /\ out[2].value.atom = "Number"

\* the innermost open container is an object for which no key has been seen
InFreshObject ==
    /\ stack # <<>>
    /\ Top(stack).kind = "obj"
    /\ Top(stack).key = ""

\* the i-th open container has had a child begin: a deeper container is open
\* inside it, or it has completed a child, or it is an object whose key is read
ChildBegun(stk, i) ==
    \/ i < Len(stk)
    \/ stk[i].n > 0
    \/ stk[i].kind = "obj" /\ stk[i].key # ""

NumChildBegun(stk) == Cardinality({i \in 1..Len(stk) : ChildBegun(stk, i)})

\* the open containers that are arrays, or objects whose key has been read
NumArrayOrKeyed(stk) ==
    Cardinality({i \in 1..Len(stk) :
                    stk[i].kind = "arr" \/ stk[i].key # ""})

\* C17: after every token of a well-formed stream, depth >= path.len() and
\* depth - path.len() is 0 or 1.
C17_GapZeroOrOne ==
    /\ depth >= Len(path)
    /\ depth - Len(path) \in {0, 1}

\* C18: depth - path.len() = 1 exactly in the states where the innermost open
\* container is an object for which no key has yet been seen; in every other
\* state depth = path.len().
C18_GapIffFreshObject ==
    IF InFreshObject THEN depth - Len(path) = 1 ELSE depth = Len(path)

C20_KeyBranch ==
    [][(toks' # toks /\ Last(toks').type = "ObjectKey") =>
          /\ (depth <= Len(path)) <=> (Top(stack).key # "")
          /\ depth' = depth
          /\ out' = out
          /\ Len(path') = depth'
          /\ path'[Len(path')].c = "Key"
          /\ path'[Len(path')].key = Last(toks').key]_vars

\* the State after `stream` has run its loop body on every token of ts
RECURSIVE StateAfter(_)
StateAfter(ts) ==
    IF ts = <<>> THEN [path |-> <<>>, depth |-> 0, panicked |-> FALSE]
    ELSE LET s == StateAfter(Front(ts))
         IN  IF s.panicked THEN s ELSE stream_body(s, Last(ts))

\* the position in ts of the Start token matching the End token sought, when
\* `open` End tokens after position i are still unmatched
RECURSIVE MatchingStart(_, _, _)
MatchingStart(ts, i, open) ==
    IF i = 0 THEN 0
    ELSE IF ts[i].type \in {"EndObject", "EndArray"}
         THEN MatchingStart(ts, i - 1, open + 1)
         ELSE IF ts[i].type \in {"StartObject", "StartArray"}
              THEN IF open = 1 THEN i ELSE MatchingStart(ts, i - 1, open - 1)
              ELSE MatchingStart(ts, i - 1, open)

SameComponent(x, y) ==
    /\ x.c = y.c
    /\ IF x.c = "Key" THEN x.key = y.key ELSE x.index = y.index

SamePath(p, q) ==
    /\ Len(p) = Len(q)
    /\ \A i \in 1..Len(p) : SameComponent(p[i], q[i])

\* p with a trailing Index component advanced by one
TrailingIndexBumped(p) ==
    IF Len(p) > 0 /\ Last(p).c = "Index"
    THEN [p EXCEPT ![Len(p)] = Index(Last(p).index + 1)]
    ELSE p

\* C21: once the End token of any container (empty or not) has been
\* processed, depth is what it was just before the matching Start token and
\* the path is the path of that moment with a trailing Index advanced by one:
\* closing a container removes only what the container itself pushed.
C21_CloseRestoresFrame ==
    (Len(toks) > 0 /\ Last(toks).type \in {"EndObject", "EndArray"}) =>
        LET m == MatchingStart(toks, Len(toks), 0)
            before == StateAfter(SubSeq(toks, 1, m - 1))
        IN  /\ depth = before.depth
            /\ SamePath(path, TrailingIndexBumped(before.path))

\* C22: when empty-collection reporting is enabled, the End token of a
\* container that had no child makes one EmptyObject / EmptyArray emission
\* whose path is the path of the empty container itself (the chain of its
\* ancestors ending with its own key or index), with no component standing
\* for a child.
C22_EmptyReportedAtOwnPath ==
    [][(/\ toks' # toks
        /\ Last(toks').type \in {"EndObject", "EndArray"}
        /\ Top(stack).n = 0
        /\ write_empty_collections) =>
          /\ Len(out') = Len(out) + 1
          /\ Last(out').value.atom =
                (IF Last(toks').type = "EndObject"
                 THEN "EmptyObject" ELSE "EmptyArray")
          /\ SamePath(Last(out').path, TruePath(Front(stack)))]_vars

\* the path once the arm of `token` has run: an End token has popped
PathAfterArm(p, token) ==
    IF token.type \in {"EndObject", "EndArray"} /\ Len(p) > 0
    THEN Front(p)
    ELSE p

\* C23: the depth counter and the array indices never wrap around. A Start
\* token at depth usize_max, and a terminal token that leaves a trailing
\* Index(usize_max) to advance, end the traversal in the panic state, with
\* the counter as it was and nothing happening afterwards; below the limit a
\* Start token adds exactly 1 to depth and a terminal token adds exactly 1 to
\* a trailing Index.
C23_CountersNeverWrap ==
    /\ [](/\ depth <= usize_max
          /\ \A i \in 1..Len(path) :
                path[i].c = "Index" => path[i].index <= usize_max)
    /\ [][/\ pc = "panic" => UNCHANGED vars
          /\ (pc = "running" /\ toks' # toks /\ pc' # "err_sink") =>
                LET token == Last(toks')
                    p == PathAfterArm(path, token)
                IN  /\ token.type \in {"StartObject", "StartArray"} =>
                          IF depth = usize_max
                          THEN pc' = "panic" /\ depth' = depth /\ out' = out
                          ELSE pc' = "running" /\ depth' = depth + 1
                    /\ (is_terminal(token) /\ Len(p) > 0
                          /\ Last(p).c = "Index") =>
                          IF Last(p).index = usize_max
                          THEN pc' = "panic" /\ SamePath(path', p)
                          ELSE /\ pc' = "running"
                               /\ SamePath(path', TrailingIndexBumped(p))]_vars

C23_Witness ==
    /\ pc = "panic"
    /\ usize_max = SmallUsizeMax
    /\ IsScalar(Last(toks))
    /\ Len(path) = 1
    /\ path[1].c = "Index"
    /\ path[1].index = usize_max
    /\ Len(out) = usize_max + 1

\* the decimal text of the integers the writer is given
DecimalText(n) ==
    CASE n = 0 -> "0" [] n = 9 -> "9" [] n = 12 -> "12" [] n = 0 - 3 -> "-3"

ComponentText(item) ==
    IF item.c = "Key" THEN item.key ELSE DecimalText(item.index)

\* "/" followed by the component, for every component in order
RECURSIVE PathText(_)
PathText(p) ==
    IF p = <<>> THEN ""
    ELSE PathText(Front(p)) \o "/" \o ComponentText(Last(p))

ValueText(value) ==
    CASE value.atom = "String" -> "\"" \o value.s \o "\""
      [] value.atom = "Null" -> "null"
      [] value.atom = "Bool" -> IF value.b THEN "true" ELSE "false"
      [] value.atom = "Number" -> DecimalText(value.n)
      [] value.atom = "EmptyObject" -> "{}"
      [] value.atom = "EmptyArray" -> "[]"

\* the emission is one the reference sink renders
IsRendered(e) ==
    e.value.atom \in {"EmptyObject", "EmptyArray"} => write_empty_collections

NumRendered == Cardinality({i \in 1..Len(out) : IsRendered(out[i])})

NumNewlines(w) == Cardinality({i \in 1..Len(w) : SubSeq(w, i, i) = "\n"})

\* C24: every emission the reference sink renders adds exactly one record,
\* path + separator + value + newline, where the path is "/" followed by the
\* component (key text, or the index in decimal) for every component in
\* order and the empty path is the empty string; the output holds as many
\* newline-terminated records as emissions were rendered.
C24_OneRecordPerEmission ==
    /\ [](NumNewlines(buf) = NumRendered)
    /\ [][Len(out') # Len(out) =>
            LET e == Last(out')
            IN  IF IsRendered(e)
                THEN buf' = buf \o PathText(e.path) \o "\t"
                                \o ValueText(e.value) \o "\n"
                ELSE buf' = buf]_vars

C24_Witness ==
    /\ Len(out) = 2
    /\ buf = "\tnull\n/a/12\t-3\n"
    /\ Len(out[1].path) = 0
    /\ Len(out[2].path) = 2

\* every container opened has been closed and the document is complete
CompleteStream == stack = <<>> /\ toks # <<>>

\* C25: on a complete well-formed token stream the traversal has consumed
\* each token exactly once, in order, ends with Ok(()) without consuming
\* anything more, and ends with depth = 0 and an empty path: no component
\* pushed during the traversal is left.
C25_CompleteStreamEndsClean ==
    /\ [](CompleteStream =>
             /\ depth = 0
             /\ Len(path) = 0
             /\ pc \in {"running", "done"}
             /\ pc = "running" => ENABLED Finish)
    /\ [][/\ toks' # toks =>
                (pc = "running" /\ ~CompleteStream /\ Front(toks') = toks)
          /\ CompleteStream =>
                (pc' = "done" /\ UNCHANGED <<path, depth, toks, out, buf>>)]_vars

C25_Witness ==
    /\ pc = "done"
    /\ CompleteStream
    /\ Len(toks) = MaxTokens
    /\ NumEmptyClosed("StartObject", "EndObject") > 0
    /\ Len(out) > 0
    /\ depth = 0
    /\ Len(path) = 0

\* the Object-key token taken in this step overwrites a Key of its own object
C26_OverwriteHitsOwnKey ==
    depth <= Len(path) =>
        /\ Len(path) > 0
        /\ Last(path).c = "Key"
        /\ Top(stack).key # ""
        /\ Last(path).key = Top(stack).key

\* the terminal token taken in this step advances, if any, the Index of the
\* array that directly contains the child it finishes
C26_IncrementHitsOwnArray ==
    LET p == PathAfterArm(path, Last(toks'))
    IN  (Len(p) > 0 /\ Last(p).c = "Index") =>
            /\ stack' # <<>>
            /\ Top(stack').kind = "arr"
            /\ Len(p) = Len(stack')
            /\ Last(path').index = Top(stack').n

\* C26: on a well-formed stream an Object-key token that takes the overwrite
\* branch finds a non-empty path and overwrites a Key of the same object,
\* never an Index; the index increment after a terminal token changes only
\* the Index of the array that directly contains the child just finished;
\* depth is never decremented below zero and no panic arm is reached.
C26_UpdatesHitOwnLevel ==
    [][toks' # toks =>
          /\ pc' # "panic"
          /\ depth' >= 0
          /\ Last(toks').type = "ObjectKey" => C26_OverwriteHitsOwnKey
          /\ is_terminal(Last(toks')) => C26_IncrementHitsOwnArray]_vars

====
